---- MODULE Spec2Model ----
(***************************************************************************)
(* Model of the menu_data repository: the USDA client (usda_client.py),    *)
(* the item merger and table builder (build_sharepoint_payload.py), the    *)
(* pipeline entry point (cli.py) and the spreadsheet filler                *)
(* (fill_usda_nutrients.py).                                               *)
(*                                                                         *)
(* Strings are sequences of one-character strings.  Optional numbers use  *)
(* None (-1; every real amount is >= 0), optional recipe ids use NoneRid. *)
(* A remote service is an oracle: for one lookup it fixes the answer to   *)
(* each request the client may issue (one search request per data type,   *)
(* one fetch request); a fresh oracle is drawn for every lookup.          *)
(***************************************************************************)
EXTENDS Integers, Sequences, FiniteSets, TLC

VARIABLES
    USDA_API_KEY,   \* usda_client.USDA_API_KEY is set (TRUE) or not (FALSE)
    cpc,            \* usda_client caller: "idle" | "done"
    clog,           \* requests issued by the last lookup_nutrition call
    cret,           \* record returned by the last lookup_nutrition call
    cexc,           \* an exception left lookup_nutrition
    mpc,            \* merge_items caller: "idle" | "done"
    menu_items,     \* merge_items argument (secondary list)
    recipe_items,   \* merge_items argument (primary, production schedule)
    canon,          \* merge_items result
    bpc,            \* build_table / cli.main position
    meal,           \* cli.main: index into MEALS of the meal being built
    recipe_nutrition, \* build_table argument: the local recipe table
    items,          \* build_table argument: item list
    nrow,           \* build_table: number of items already processed
    rows,           \* build_table: rows appended so far
    calls,          \* lookup_nutrition calls made by build_table (whole run)
    out_tables,     \* cli.main: tables built so far
    fpc,            \* fill_usda_nutrients.main position
    api_key,        \* fill_usda_nutrients: env_api_key() result is set
    df,             \* fill_usda_nutrients: the rows of the sheet
    idx,            \* fill_usda_nutrients: rows already visited
    cache,          \* fill_usda_nutrients: lookup cache (key -> record)
    fills,          \* fill_usda_nutrients: cells filled
    sleeps,         \* fill_usda_nutrients: time.sleep(args.delay) calls
    searches        \* fill_usda_nutrients: search_food calls (cache misses)

clientVars == <<cpc, clog, cret, cexc>>
mergeVars == <<mpc, menu_items, recipe_items, canon>>
tableVars == <<bpc, meal, recipe_nutrition, items, nrow, rows, calls, out_tables>>
fillVars == <<fpc, api_key, df, idx, cache, fills, sleeps, searches>>
vars == <<USDA_API_KEY, clientVars, mergeVars, tableVars, fillVars>>

----------------------------------------------------------------------------
(* Python values *)

None == 0 - 1
NoneRid == "None"

----------------------------------------------------------------------------
(* Strings *)

WS == {" "}

RECURSIVE LStrip(_)
LStrip(s) ==
    IF s = <<>> THEN s
    ELSE IF Head(s) \in WS THEN LStrip(Tail(s)) ELSE s

RECURSIVE RStrip(_)
RStrip(s) ==
    IF s = <<>> THEN s
    ELSE IF s[Len(s)] \in WS THEN RStrip(SubSeq(s, 1, Len(s) - 1)) ELSE s

\* str.strip()
Strip(s) == RStrip(LStrip(s))

\* str.split(): the maximal runs of non-whitespace characters
RECURSIVE SplitFrom(_, _, _)
SplitFrom(s, cur, out) ==
    IF s = <<>> THEN (IF cur = <<>> THEN out ELSE Append(out, cur))
    ELSE IF Head(s) \in WS
         THEN SplitFrom(Tail(s), <<>>, IF cur = <<>> THEN out ELSE Append(out, cur))
         ELSE SplitFrom(Tail(s), Append(cur, Head(s)), out)

Split(s) == SplitFrom(s, <<>>, <<>>)

\* " ".join(words)
RECURSIVE Join(_)
Join(words) ==
    IF words = <<>> THEN <<>>
    ELSE IF Len(words) = 1 THEN words[1]
    ELSE words[1] \o <<" ">> \o Join(Tail(words))

normalize_item(name) == Join(Split(Strip(name)))

----------------------------------------------------------------------------
(* Nutrient records *)

NUTR_FIELDS == <<"Calories", "Protein_g", "Carbs_g", "Fat_g", "Fiber_g", "Sodium_mg", "Sugar_g">>

FieldSet == {NUTR_FIELDS[i] : i \in 1..Len(NUTR_FIELDS)}

_safe_default == [k \in FieldSet |-> None]

\* the nutrient id extract_nutrients reads for each field
NutrientIdOf ==
    [k \in FieldSet |->
        CASE k = "Calories" -> 1008
          [] k = "Protein_g" -> 1003
          [] k = "Carbs_g" -> 1005
          [] k = "Fat_g" -> 1004
          [] k = "Fiber_g" -> 1079
          [] k = "Sodium_mg" -> 1093
          [] k = "Sugar_g" -> 2000]

----------------------------------------------------------------------------
(* The remote service *)

DATA_TYPE_PRIORITY == << <<"Foundation", "SR Legacy">>, <<"Branded">>, <<"Survey (FNDDS)">> >>

DataTypes == {"Foundation", "SR Legacy", "Branded", "Survey (FNDDS)"}

\* hit lists a search may return (fdcIds, in the order the service ranks them)
HitLists == { <<>>, <<1>>, <<2, 1>> }

\* food JSONs a fetch may return: the foodNutrients list, each entry with
\* nutrient.id, nutrient.number and amount; <<>> is the empty JSON object
EmptyJson == <<>>

FoodJson ==
    << [id |-> 1008, number |-> None, amount |-> 100],
       [id |-> 1079, number |-> None, amount |-> 3],
       [id |-> 1093, number |-> None, amount |-> None],
       [id |-> None, number |-> 2000, amount |-> 5],
       [id |-> 1079, number |-> None, amount |-> 4] >>

Foods == {EmptyJson, FoodJson}

\* HTTP responses: raised = requests.get raised (timeout, connection error)
SearchResponses ==
    {[raised |-> TRUE, status |-> 0, foods |-> <<>>]}
    \cup {[raised |-> FALSE, status |-> st, foods |-> <<>>] : st \in {404, 500}}
    \cup {[raised |-> FALSE, status |-> 200, foods |-> h] : h \in HitLists}

FetchResponses ==
    {[raised |-> TRUE, status |-> 0, json |-> EmptyJson]}
    \cup {[raised |-> FALSE, status |-> st, json |-> EmptyJson] : st \in {404, 500}}
    \cup {[raised |-> FALSE, status |-> 200, json |-> j] : j \in Foods}

Remotes == [search : [DataTypes -> SearchResponses], fetch : FetchResponses]

\* Response.raise_for_status(): HTTPError for 4xx and 5xx
raise_for_status(status) == status >= 400 /\ status < 600

----------------------------------------------------------------------------
(* usda_client.py *)

\* _assert_key that never reports the missing key
AssertKeyAlways(key) == TRUE

_assert_key(key) == key

LogSearch(dt, resp) ==
    [op |-> "search", dt |-> dt, fdcId |-> None,
     raised |-> resp.raised, status |-> resp.status, foods |-> resp.foods]

LogFetch(fdc_id, resp) ==
    [op |-> "fetch", dt |-> "", fdcId |-> fdc_id,
     raised |-> resp.raised, status |-> resp.status, foods |-> <<>>]

\* SearchTry without the "status >= 500: continue" branch: a 5xx status goes
\* to raise_for_status like a 4xx one
RECURSIVE SearchTryNoContinue(_, _, _, _)
SearchTryNoContinue(data_types, i, remote, log) ==
    IF i > Len(data_types) THEN [foods |-> <<>>, log |-> log, exc |-> FALSE]
    ELSE LET dt == data_types[i]
             resp == remote.search[dt]
             log2 == Append(log, LogSearch(dt, resp))
         IN  IF resp.raised \/ raise_for_status(resp.status)
             THEN [foods |-> <<>>, log |-> log2, exc |-> TRUE]
             ELSE IF resp.foods # <<>>
                  THEN [foods |-> resp.foods, log |-> log2, exc |-> FALSE]
             ELSE SearchTryNoContinue(data_types, i + 1, remote, log2)

\* the body of the try block of _search: the loop over data_types from
\* position i; exc = a requests.RequestException left the loop
RECURSIVE SearchTry(_, _, _, _)
SearchTry(data_types, i, remote, log) ==
    IF i > Len(data_types) THEN [foods |-> <<>>, log |-> log, exc |-> FALSE]
    ELSE LET dt == data_types[i]
             resp == remote.search[dt]
             log2 == Append(log, LogSearch(dt, resp))
         IN  IF resp.raised THEN [foods |-> <<>>, log |-> log2, exc |-> TRUE]
             ELSE IF resp.status >= 500 THEN SearchTry(data_types, i + 1, remote, log2)
             ELSE IF raise_for_status(resp.status)
                  THEN [foods |-> <<>>, log |-> log2, exc |-> TRUE]
             ELSE IF resp.foods # <<>>
                  THEN [foods |-> resp.foods, log |-> log2, exc |-> FALSE]
             ELSE SearchTry(data_types, i + 1, remote, log2)

_search(key, data_types, remote, log) ==
    IF ~_assert_key(key) THEN [foods |-> <<>>, log |-> log, exc |-> FALSE]
    ELSE LET t == SearchTry(data_types, 1, remote, log)
         IN  IF t.exc THEN [foods |-> <<>>, log |-> t.log, exc |-> FALSE] ELSE t

\* the loop of search_foods_priority from bucket b
RECURSIVE PriorityFrom(_, _, _, _)
PriorityFrom(key, b, remote, log) ==
    IF b > Len(DATA_TYPE_PRIORITY) THEN [foods |-> <<>>, log |-> log, exc |-> FALSE]
    ELSE LET r == _search(key, DATA_TYPE_PRIORITY[b], remote, log)
         IN  IF r.exc \/ r.foods # <<>> THEN r
             ELSE PriorityFrom(key, b + 1, remote, r.log)

search_foods_priority(key, remote, log) == PriorityFrom(key, 1, remote, log)

\* best_match that takes hits[-1]
BestMatchLast(key, remote, log) ==
    LET r == search_foods_priority(key, remote, log)
    IN  [hit |-> IF r.foods # <<>> THEN r.foods[Len(r.foods)] ELSE None, log |-> r.log, exc |-> r.exc]

\* hit = the fdcId of the chosen hit, None when there is none
best_match(key, remote, log) ==
    LET r == search_foods_priority(key, remote, log)
    IN  [hit |-> IF r.foods # <<>> THEN r.foods[1] ELSE None, log |-> r.log, exc |-> r.exc]

\* isNone = get_food returned None; food = the JSON it returned otherwise
get_food(key, fdc_id, remote, log) ==
    IF ~_assert_key(key) THEN [isNone |-> TRUE, food |-> EmptyJson, log |-> log, exc |-> FALSE]
    ELSE LET resp == remote.fetch
             log2 == Append(log, LogFetch(fdc_id, resp))
         IN  IF resp.raised \/ resp.status >= 500 \/ raise_for_status(resp.status)
             THEN [isNone |-> TRUE, food |-> EmptyJson, log |-> log2, exc |-> FALSE]
             ELSE [isNone |-> FALSE, food |-> resp.json, log |-> log2, exc |-> FALSE]

\* nid = n["nutrient"]["id"] or n["nutrient"]["number"]
NidOf(n) == IF n.id # None /\ n.id # 0 THEN n.id ELSE n.number

\* by_id.get(nid).amount for the last entry of the list with that nid
RECURSIVE AmountOf(_, _, _)
AmountOf(foodNutrients, nid, i) ==
    IF i = 0 THEN None
    ELSE IF NidOf(foodNutrients[i]) = nid THEN foodNutrients[i].amount
    ELSE AmountOf(foodNutrients, nid, i - 1)

extract_nutrients(food_json) ==
    IF food_json = EmptyJson THEN _safe_default
    ELSE [k \in FieldSet |-> AmountOf(food_json, NutrientIdOf[k], Len(food_json))]

lookup_nutrition(key, remote) ==
    LET m == best_match(key, remote, <<>>)
    IN  IF m.exc THEN [ret |-> _safe_default, log |-> m.log, exc |-> TRUE]
        ELSE IF m.hit = None THEN [ret |-> _safe_default, log |-> m.log, exc |-> FALSE]
        ELSE LET f == get_food(key, m.hit, remote, m.log)
             IN  IF f.exc THEN [ret |-> _safe_default, log |-> f.log, exc |-> TRUE]
                 ELSE IF f.isNone \/ f.food = EmptyJson
                      THEN [ret |-> _safe_default, log |-> f.log, exc |-> FALSE]
                 ELSE [ret |-> extract_nutrients(f.food), log |-> f.log, exc |-> FALSE]

\* the distinct outcomes lookup_nutrition can have over all remote behaviours
ResultsWithKey ==
    {[ret |-> lookup_nutrition(TRUE, rm).ret, exc |-> lookup_nutrition(TRUE, rm).exc] : rm \in Remotes}

ResultsNoKey ==
    {[ret |-> lookup_nutrition(FALSE, rm).ret, exc |-> lookup_nutrition(FALSE, rm).exc] : rm \in Remotes}

LookupResults(key) == IF key THEN ResultsWithKey ELSE ResultsNoKey

----------------------------------------------------------------------------
(* build_sharepoint_payload.py *)

\* rid or ""
RidOrEmpty(rid) == IF rid = NoneRid THEN "" ELSE rid

\* the loop of merge_items over d = ds[i..]
RECURSIVE MergeLoop(_, _, _, _)
MergeLoop(ds, i, acc, seen) ==
    IF i > Len(ds) THEN acc
    ELSE LET nm == normalize_item(ds[i].Item)
             rid == ds[i].RecipeId
             key == <<nm, RidOrEmpty(rid)>>
         IN  IF nm # <<>> /\ key \notin seen
             THEN MergeLoop(ds, i + 1, Append(acc, [Item |-> nm, RecipeId |-> rid]), seen \cup {key})
             ELSE MergeLoop(ds, i + 1, acc, seen)

merge_items(menu, recipe) == MergeLoop(recipe \o menu, 1, <<>>, {})

\* a recipe_nutrition argument: isNone = the argument is None; hasItemCol =
\* the frame has an "Item" column; byItem = its rows keyed by item name
\* (a missing column or a NaN cell of a row is None)
NoTable == [isNone |-> TRUE, hasItemCol |-> FALSE, byItem |-> <<>>]

\* rix is not None
HasRix(table) == ~table.isNone /\ DOMAIN table.byItem # {} /\ table.hasItemCol

\* lines 35-42: rec_vals and source after the local table was consulted
LocalPart(table, item) ==
    IF HasRix(table) /\ item \in DOMAIN table.byItem
    THEN [vals |-> [k \in FieldSet |-> table.byItem[item][k]], source |-> "Recipe"]
    ELSE [vals |-> _safe_default, source |-> "USDA"]

\* lines 46-49: the loop over NUTR_FIELDS from position i
RECURSIVE UsdaFill(_, _, _, _)
UsdaFill(i, rec_vals, usda, source) ==
    IF i > Len(NUTR_FIELDS) THEN [vals |-> rec_vals, source |-> source]
    ELSE LET k == NUTR_FIELDS[i]
         IN  IF rec_vals[k] = None /\ usda[k] # None
             THEN UsdaFill(i + 1, [rec_vals EXCEPT ![k] = usda[k]], usda,
                           IF source = "Recipe" THEN "Mixed" ELSE "USDA")
             ELSE UsdaFill(i + 1, rec_vals, usda, source)

\* the lookup condition without the test for unknown fields
NeedsLookupAlways(rec_vals) == TRUE

\* line 44
NeedsLookup(rec_vals) == \E k \in FieldSet : rec_vals[k] = None

MakeRow(meal_label, it, r) ==
    [Meal |-> meal_label, Item |-> it.Item, vals |-> r.vals,
     Source |-> r.source, RecipeId |-> it.RecipeId]

----------------------------------------------------------------------------
(* Bounded inputs *)

MaxMergeLen == 2
MaxItems == 1
MaxTableItems == 2

RECURSIVE SeqsUpTo(_, _)
SeqsUpTo(S, n) ==
    IF n = 0 THEN {<<>>}
    ELSE LET shorter == SeqsUpTo(S, n - 1)
         IN  shorter \cup {Append(q, x) : q \in {t \in shorter : Len(t) = n - 1}, x \in S}

\* the parsers deduplicate their output by (Item, RecipeId)
NoRepeat(q) == \A i, j \in 1..Len(q) : q[i] = q[j] => i = j

ParsedLists(pool, n) == {q \in SeqsUpTo(pool, n) : NoRepeat(q)}

NameAB == <<"a", " ", "b">>
NameA2B == <<"a", " ", " ", "b">>
NameC == <<"c">>

Rids == {NoneRid, "R1", "R2"}

MergePool == {[Item |-> n, RecipeId |-> r] : n \in {NameAB, NameA2B, NameC}, r \in Rids}

MergeLists == ParsedLists(MergePool, MaxMergeLen)

CliPool ==
    { [Item |-> NameAB, RecipeId |-> NoneRid],
      [Item |-> NameA2B, RecipeId |-> "R1"],
      [Item |-> NameC, RecipeId |-> NoneRid] }

CliLists == ParsedLists(CliPool, MaxItems)

\* rows of a local recipe table: no cell, two cells, all but fiber, all cells
LocalNaN == [k \in FieldSet |-> None]
LocalTwo == [k \in FieldSet |-> IF k \in {"Calories", "Protein_g"} THEN 7 ELSE None]
LocalNoFiber == [k \in FieldSet |-> IF k = "Fiber_g" THEN None ELSE 7]
LocalFull == [k \in FieldSet |-> 7]

LocalRows == {LocalNaN, LocalTwo, LocalNoFiber, LocalFull}

TableNames == {NameAB, NameC}

Tables ==
    {NoTable}
    \cup {[isNone |-> FALSE, hasItemCol |-> h, byItem |-> f] :
            h \in BOOLEAN,
            f \in UNION {[D -> LocalRows] : D \in SUBSET TableNames}}

TablePool ==
    { [Item |-> NameAB, RecipeId |-> "R1"],
      [Item |-> NameC, RecipeId |-> NoneRid],
      [Item |-> NameA2B, RecipeId |-> NoneRid] }

TableLists == SeqsUpTo(TablePool, MaxTableItems)

----------------------------------------------------------------------------
(* Idle values of each component, for the specifications that do not run it *)

ClientIdle == cpc = "idle" /\ clog = <<>> /\ cret = _safe_default /\ cexc = FALSE

MergeIdle == mpc = "idle" /\ menu_items = <<>> /\ recipe_items = <<>> /\ canon = <<>>

TableIdle ==
    /\ bpc = "idle" /\ meal = 0 /\ recipe_nutrition = NoTable /\ items = <<>>
    /\ nrow = 0 /\ rows = <<>> /\ calls = <<>> /\ out_tables = <<>>

FillIdle ==
    /\ fpc = "idle" /\ api_key = FALSE /\ df = <<>> /\ idx = 0
    /\ cache = <<>> /\ fills = 0 /\ sleeps = 0 /\ searches = 0

----------------------------------------------------------------------------
(* A caller of usda_client.lookup_nutrition *)

InitClient ==
    /\ USDA_API_KEY \in BOOLEAN
    /\ ClientIdle /\ MergeIdle /\ TableIdle /\ FillIdle

Lookup ==
    /\ cpc = "idle"
    /\ \E remote \in Remotes :
        LET r == lookup_nutrition(USDA_API_KEY, remote)
        IN  /\ clog' = r.log
            /\ cret' = r.ret
            /\ cexc' = r.exc
    /\ cpc' = "done"
    /\ UNCHANGED <<USDA_API_KEY, mergeVars, tableVars, fillVars>>

NextQuery ==
    /\ cpc = "done"
    /\ cpc' = "idle"
    /\ clog' = <<>>
    /\ cret' = _safe_default
    /\ cexc' = FALSE
    /\ UNCHANGED <<USDA_API_KEY, mergeVars, tableVars, fillVars>>

NextClient == Lookup \/ NextQuery

SpecClient == InitClient /\ [][NextClient]_vars

----------------------------------------------------------------------------
(* A caller of merge_items *)

InitMerge ==
    /\ USDA_API_KEY = FALSE
    /\ ClientIdle /\ MergeIdle /\ TableIdle /\ FillIdle

Merge ==
    /\ mpc = "idle"
    /\ \E menu \in MergeLists, recipe \in MergeLists :
        /\ menu_items' = menu
        /\ recipe_items' = recipe
        /\ canon' = merge_items(menu, recipe)
    /\ mpc' = "done"
    /\ UNCHANGED <<USDA_API_KEY, clientVars, tableVars, fillVars>>

MergeAgain ==
    /\ mpc = "done"
    /\ mpc' = "idle"
    /\ menu_items' = <<>>
    /\ recipe_items' = <<>>
    /\ canon' = <<>>
    /\ UNCHANGED <<USDA_API_KEY, clientVars, tableVars, fillVars>>

NextMerge == Merge \/ MergeAgain

SpecMerge == InitMerge /\ [][NextMerge]_vars

----------------------------------------------------------------------------
(* build_table, called directly (SpecTable) or from cli.main (Spec) *)

MEALS == <<"Breakfast", "Lunch", "Dinner">>

\* one iteration of the loop of build_table (lines 32-58)
BuildRow ==
    /\ bpc \in {"build", "meal"}
    /\ nrow < Len(items)
    /\ LET it == items[nrow + 1]
           lp == LocalPart(recipe_nutrition, it.Item)
       IN  IF NeedsLookup(lp.vals)
           THEN \E res \in LookupResults(USDA_API_KEY) :
                 /\ calls' = Append(calls, [meal |-> meal, row |-> nrow + 1,
                                            query |-> it.Item, ret |-> res.ret])
                 /\ IF res.exc
                    THEN bpc' = "raised" /\ UNCHANGED <<rows, nrow>>
                    ELSE /\ rows' = Append(rows, MakeRow(MEALS[meal], it,
                                        UsdaFill(1, lp.vals, res.ret, lp.source)))
                         /\ nrow' = nrow + 1
                         /\ bpc' = bpc
           ELSE /\ rows' = Append(rows, MakeRow(MEALS[meal], it, lp))
                /\ nrow' = nrow + 1
                /\ UNCHANGED <<calls, bpc>>
    /\ UNCHANGED <<meal, recipe_nutrition, items, out_tables>>
    /\ UNCHANGED <<USDA_API_KEY, clientVars, mergeVars, fillVars>>

\* build_table returns to a direct caller
BuildReturn ==
    /\ bpc = "build"
    /\ nrow = Len(items)
    /\ bpc' = "returned"
    /\ UNCHANGED <<meal, recipe_nutrition, items, nrow, rows, calls, out_tables>>
    /\ UNCHANGED <<USDA_API_KEY, clientVars, mergeVars, fillVars>>

InitTable ==
    /\ USDA_API_KEY \in BOOLEAN
    /\ ClientIdle /\ MergeIdle /\ FillIdle
    /\ bpc = "build"
    /\ meal = 1
    /\ recipe_nutrition \in Tables
    /\ items \in TableLists
    /\ nrow = 0
    /\ rows = <<>>
    /\ calls = <<>>
    /\ out_tables = <<>>

NextTable == BuildRow \/ BuildReturn

SpecTable == InitTable /\ [][NextTable]_vars

----------------------------------------------------------------------------
(* cli.main *)

\* lines 33-38: parse the meal's documents, merge, enter build_table
StartMeal ==
    /\ bpc = "main"
    /\ meal < Len(MEALS)
    /\ meal' = meal + 1
    /\ \E menu \in CliLists, prod \in CliLists : items' = merge_items(menu, prod)
    /\ nrow' = 0
    /\ rows' = <<>>
    /\ bpc' = "meal"
    /\ UNCHANGED <<recipe_nutrition, calls, out_tables>>
    /\ UNCHANGED <<USDA_API_KEY, clientVars, mergeVars, fillVars>>

\* line 39: build_table returned, out_tables.append(df)
EndMeal ==
    /\ bpc = "meal"
    /\ nrow = Len(items)
    /\ out_tables' = Append(out_tables, rows)
    /\ bpc' = "main"
    /\ UNCHANGED <<meal, recipe_nutrition, items, nrow, rows, calls>>
    /\ UNCHANGED <<USDA_API_KEY, clientVars, mergeVars, fillVars>>

\* lines 41-46: the loop is over, the tables are concatenated and written
Finish ==
    /\ bpc = "main"
    /\ meal = Len(MEALS)
    /\ bpc' = "done"
    /\ UNCHANGED <<meal, recipe_nutrition, items, nrow, rows, calls, out_tables>>
    /\ UNCHANGED <<USDA_API_KEY, clientVars, mergeVars, fillVars>>

Init ==
    /\ USDA_API_KEY \in BOOLEAN
    /\ ClientIdle /\ MergeIdle /\ FillIdle
    /\ bpc = "main"
    /\ meal = 0
    /\ recipe_nutrition = NoTable
    /\ items = <<>>
    /\ nrow = 0
    /\ rows = <<>>
    /\ calls = <<>>
    /\ out_tables = <<>>

Next == StartMeal \/ BuildRow \/ EndMeal \/ Finish

Spec == Init /\ [][Next]_vars

----------------------------------------------------------------------------
(* fill_usda_nutrients.py *)

TARGETS == <<"Fiber_g", "Sodium_mg", "Sugar_g">>

TargetSet == {TARGETS[i] : i \in 1..Len(TARGETS)}

NoTargets == [k \in TargetSet |-> None]

\* the loop of search_food over DATA_TYPE_PRIORITY[b][i..]; the try block is
\* inside the loop, so a RequestException skips one data type only
RECURSIVE SearchFoodFrom(_, _, _, _)
SearchFoodFrom(b, i, remote, log) ==
    IF b > Len(DATA_TYPE_PRIORITY) THEN [hit |-> None, log |-> log]
    ELSE IF i > Len(DATA_TYPE_PRIORITY[b]) THEN SearchFoodFrom(b + 1, 1, remote, log)
    ELSE LET dt == DATA_TYPE_PRIORITY[b][i]
             resp == remote.search[dt]
             log2 == Append(log, LogSearch(dt, resp))
         IN  IF resp.raised \/ resp.status >= 500 \/ raise_for_status(resp.status)
             THEN SearchFoodFrom(b, i + 1, remote, log2)
             ELSE IF resp.foods # <<>> THEN [hit |-> resp.foods[1], log |-> log2]
             ELSE SearchFoodFrom(b, i + 1, remote, log2)

search_food(remote) == SearchFoodFrom(1, 1, remote, <<>>)

fetch_food(fdc_id, remote, log) ==
    LET resp == remote.fetch
        log2 == Append(log, LogFetch(fdc_id, resp))
    IN  IF resp.raised \/ resp.status >= 500 \/ raise_for_status(resp.status)
        THEN [isNone |-> TRUE, food |-> EmptyJson, log |-> log2]
        ELSE [isNone |-> FALSE, food |-> resp.json, log |-> log2]

\* by_id keeps the entries whose nutrient.id is not None, the last one winning
RECURSIVE TargetAmount(_, _, _)
TargetAmount(foodNutrients, nid, i) ==
    IF i = 0 THEN None
    ELSE IF foodNutrients[i].id # None /\ foodNutrients[i].id = nid
         THEN foodNutrients[i].amount
    ELSE TargetAmount(foodNutrients, nid, i - 1)

extract_targets(isNone, food_json) ==
    IF isNone \/ food_json = EmptyJson THEN NoTargets
    ELSE [k \in TargetSet |-> TargetAmount(food_json, NutrientIdOf[k], Len(food_json))]

\* lines 168-174 on a cache miss: the record cached and whether time.sleep ran
MissOutcome(remote) ==
    LET s == search_food(remote)
    IN  IF s.hit = None THEN [rec |-> NoTargets, slept |-> FALSE]
        ELSE LET f == fetch_food(s.hit, remote, s.log)
             IN  [rec |-> extract_targets(f.isNone, f.food), slept |-> TRUE]

MissOutcomes == {MissOutcome(rm) : rm \in Remotes}

\* str.lower()
LowerChar(c) == IF c = "A" THEN "a" ELSE IF c = "B" THEN "b" ELSE c

Lower(s) == [i \in 1..Len(s) |-> LowerChar(s[i])]

MaxRows == 3

NameUpper == <<"A", " ", "b">>
NameABTrail == <<"a", " ", "b", " ">>
NameBlank == <<" ">>

SheetNames == {NameAB, NameA2B, NameUpper, NameABTrail, NameBlank}

\* the target cells of a sheet row: all blank, only fiber blank, none blank
SheetCells ==
    { NoTargets,
      [k \in TargetSet |-> IF k = "Fiber_g" THEN None ELSE 9],
      [k \in TargetSet |-> 9] }

SheetRows == {[Item |-> n, cells |-> c] : n \in SheetNames, c \in SheetCells}

is_missing(v) == v = None

EmptyCache == [k \in {} |-> NoTargets]

\* lines 176-181: the cells of the row after the fill, and the cells filled
FilledCells(cells, rec) ==
    [k \in TargetSet |-> IF is_missing(cells[k]) /\ rec[k] # None THEN rec[k] ELSE cells[k]]

FillCount(cells, rec) == Cardinality({k \in TargetSet : is_missing(cells[k]) /\ rec[k] # None})

InitFill ==
    /\ USDA_API_KEY = FALSE
    /\ ClientIdle /\ MergeIdle /\ TableIdle
    /\ fpc = "start"
    /\ api_key \in BOOLEAN
    /\ df = <<>>
    /\ idx = 0
    /\ cache = EmptyCache
    /\ fills = 0
    /\ sleeps = 0
    /\ searches = 0

\* lines 137-140
FillStart ==
    /\ fpc = "start"
    /\ fpc' = IF api_key THEN "loop" ELSE "exit"
    /\ UNCHANGED <<api_key, df, idx, cache, fills, sleeps, searches>>
    /\ UNCHANGED <<USDA_API_KEY, clientVars, mergeVars, tableVars>>

\* one iteration of the row loop (lines 157-181); the sheet's next row is
\* read as it is reached
FillRow ==
    /\ fpc = "loop"
    /\ idx < MaxRows
    /\ idx' = idx + 1
    /\ \E row \in SheetRows :
        LET name == Strip(row.Item)
            need == {k \in TargetSet : is_missing(row.cells[k])}
            key == Lower(name)
        IN  IF name = <<>> \/ need = {}
            THEN /\ df' = Append(df, row)
                 /\ UNCHANGED <<cache, fills, sleeps, searches>>
            ELSE IF key \in DOMAIN cache
            THEN /\ df' = Append(df, [row EXCEPT !.cells = FilledCells(row.cells, cache[key])])
                 /\ fills' = fills + FillCount(row.cells, cache[key])
                 /\ UNCHANGED <<cache, sleeps, searches>>
            ELSE \E o \in MissOutcomes :
                 /\ cache' = [k \in DOMAIN cache \cup {key} |-> IF k = key THEN o.rec ELSE cache[k]]
                 /\ searches' = searches + 1
                 /\ sleeps' = IF o.slept THEN sleeps + 1 ELSE sleeps
                 /\ df' = Append(df, [row EXCEPT !.cells = FilledCells(row.cells, o.rec)])
                 /\ fills' = fills + FillCount(row.cells, o.rec)
    /\ UNCHANGED <<fpc, api_key>>
    /\ UNCHANGED <<USDA_API_KEY, clientVars, mergeVars, tableVars>>

\* the sheet has no more rows (lines 183-197)
FillFinish ==
    /\ fpc = "loop"
    /\ fpc' = "done"
    /\ UNCHANGED <<api_key, df, idx, cache, fills, sleeps, searches>>
    /\ UNCHANGED <<USDA_API_KEY, clientVars, mergeVars, tableVars>>

NextFill == FillStart \/ FillRow \/ FillFinish

SpecFill == InitFill /\ [][NextFill]_vars

----------------------------------------------------------------------------
(* Properties *)

\* the data types in the order search_foods_priority reaches them
PriorityOrder == DATA_TYPE_PRIORITY[1] \o DATA_TYPE_PRIORITY[2] \o DATA_TYPE_PRIORITY[3]

Rank(dt) == CHOOSE n \in 1..Len(PriorityOrder) : PriorityOrder[n] = dt

IsSearch(e) == e.op = "search"

ServerFault(e) == IsSearch(e) /\ ~e.raised /\ e.status >= 500

ClientFault(e) == IsSearch(e) /\ (e.raised \/ (e.status >= 400 /\ e.status < 500))

\* every table built so far in the run, the one under construction included
AllRows ==
    {out_tables[t][r] : <<t, r>> \in {p \in (1..Len(out_tables)) \X (1..MaxItems + MaxItems) :
                                        p[2] <= Len(out_tables[p[1]])}}
    \cup {rows[r] : r \in 1..Len(rows)}

\* C1: when the pipeline has finished (key set, no local table), no two
\* lookup_nutrition calls of the run carry the same normalized item name, and
\* every row's item was looked up.
C1_OneLookupPerName ==
    (bpc = "done" /\ USDA_API_KEY) =>
        /\ \A i, j \in 1..Len(calls) :
            normalize_item(calls[i].query) = normalize_item(calls[j].query) => i = j
        /\ \A row \in AllRows : \E i \in 1..Len(calls) : calls[i].query = row.Item

\* the fields of row i of build_table that the local table supplies
InLocal(i) ==
    /\ ~recipe_nutrition.isNone
    /\ recipe_nutrition.hasItemCol
    /\ items[i].Item \in DOMAIN recipe_nutrition.byItem

FromLocal(i) ==
    IF InLocal(i)
    THEN {k \in FieldSet : recipe_nutrition.byItem[items[i].Item][k] # None}
    ELSE {}

\* the fields of row i that are resolved and were not supplied locally
FromRemote(i) == {k \in FieldSet \ FromLocal(i) : rows[i].vals[k] # None}

\* C2: every row's Source is "Recipe" only if all its resolved fields are
\* local (and there is one), "USDA" only if none is local, and "Mixed" only
\* if it has both local and remote fields.
C2_SourceReflectsProvenance ==
    \A i \in 1..Len(rows) :
        /\ rows[i].Source = "Recipe" => (FromLocal(i) # {} /\ FromRemote(i) = {})
        /\ rows[i].Source = "USDA" => FromLocal(i) = {}
        /\ rows[i].Source = "Mixed" => (FromLocal(i) # {} /\ FromRemote(i) # {})

\* C3: any two rows of one run for the same item carry the same nutrient
\* values.
C3_SameItemSameValues ==
    \A r1, r2 \in AllRows : r1.Item = r2.Item => r1.vals = r2.vals

\* C4: after a lookup, no exception has left the client, and every search
\* attempt that met a 4xx status or a request failure is followed by the
\* search of the next data type in priority order.
C4_ClientFaultSkipsOneAttempt ==
    cpc = "done" =>
        /\ ~cexc
        /\ \A i \in 1..Len(clog) :
            (ClientFault(clog[i]) /\ Rank(clog[i].dt) < Len(PriorityOrder)) =>
                /\ i < Len(clog)
                /\ IsSearch(clog[i + 1])
                /\ Rank(clog[i + 1].dt) = Rank(clog[i].dt) + 1

\* C5: every search attempt answered with a status >= 500 is followed by the
\* search of the next data type in priority order (Foundation, SR Legacy,
\* Branded, Survey); when all four attempts fault, lookup_nutrition returns
\* the all-unknown record and no exception leaves it.
C5_ServerFaultFallsThrough ==
    cpc = "done" =>
        /\ \A i \in 1..Len(clog) :
            (ServerFault(clog[i]) /\ Rank(clog[i].dt) < Len(PriorityOrder)) =>
                /\ i < Len(clog)
                /\ IsSearch(clog[i + 1])
                /\ Rank(clog[i + 1].dt) = Rank(clog[i].dt) + 1
        /\ (Len(clog) = Len(PriorityOrder) /\ \A i \in 1..Len(clog) : ServerFault(clog[i])) =>
                (cret = _safe_default /\ ~cexc)

\* C5 witness: a lookup whose four search attempts all faulted
C5_Witness ==
    /\ cpc = "done"
    /\ Len(clog) = Len(PriorityOrder)
    /\ \A i \in 1..Len(clog) : ServerFault(clog[i])
    /\ clog[3].dt = "Branded"

\* C6: after merge_items, a normalized name that is in the primary and in the
\* secondary list with different recipe ids is in the result exactly once,
\* with the recipe id of its first primary entry.
C6_PrimaryRecipeIdKept ==
    mpc = "done" =>
        \A i \in 1..Len(recipe_items), j \in 1..Len(menu_items) :
            LET nm == normalize_item(recipe_items[i].Item)
                first == CHOOSE f \in 1..Len(recipe_items) :
                            /\ normalize_item(recipe_items[f].Item) = nm
                            /\ \A g \in 1..(f - 1) : normalize_item(recipe_items[g].Item) # nm
            IN  (/\ nm # <<>>
                 /\ normalize_item(menu_items[j].Item) = nm
                 /\ \A f \in 1..Len(recipe_items) :
                        normalize_item(recipe_items[f].Item) = nm =>
                            recipe_items[f].RecipeId # menu_items[j].RecipeId) =>
                    /\ Cardinality({c \in 1..Len(canon) : canon[c].Item = nm}) = 1
                    /\ \A c \in 1..Len(canon) :
                        canon[c].Item = nm => canon[c].RecipeId = recipe_items[first].RecipeId

\* the local table has all seven fields of row i's item
LocalComplete(i) == InLocal(i) /\ FromLocal(i) = FieldSet

\* C7: a row whose item has all seven fields in the local table has Source
\* "Recipe", carries the local values, and no lookup_nutrition call was made
\* for it.
C7_CompleteLocalNoRemote ==
    \A i \in 1..Len(rows) :
        LocalComplete(i) =>
            /\ rows[i].Source = "Recipe"
            /\ rows[i].vals = recipe_nutrition.byItem[items[i].Item]
            /\ \A c \in 1..Len(calls) : calls[c].row # i

\* C7 witness: build_table returned two rows, one complete in the local table
\* and one that needed a lookup
C7_Witness ==
    /\ bpc = "returned"
    /\ Len(rows) = 2
    /\ LocalComplete(1)
    /\ ~LocalComplete(2)
    /\ Len(calls) = 1

\* C8: in the row loop of fill_usda_nutrients.main the number of delays equals
\* the number of cache misses.
C8_DelayPerCacheMiss ==
    fpc \in {"loop", "done"} => sleeps = searches

\* C9: without an API key, every lookup_nutrition call of build_table returns
\* the all-unknown record, no exception stops build_table, no row has a field
\* from the remote service, and build_table returns one row per item, in
\* order.
C9_NoKeyAllUnknown ==
    ~USDA_API_KEY =>
        /\ bpc # "raised"
        /\ \A c \in 1..Len(calls) : calls[c].ret = _safe_default
        /\ \A i \in 1..Len(rows) : FromRemote(i) = {} /\ rows[i].Item = items[i].Item
        /\ bpc = "returned" => Len(rows) = Len(items)

\* C9 witness: build_table returned two rows without a key, after lookups
C9_Witness ==
    /\ ~USDA_API_KEY
    /\ bpc = "returned"
    /\ Len(rows) = 2
    /\ Len(calls) >= 1

\* C10: the search requests of a lookup follow the order Foundation, SR
\* Legacy, Branded, Survey (FNDDS), starting with Foundation; a search that
\* returned hits is the last search, and the hit fetched next is its first
\* hit; nothing is fetched without such a search.
C10_FirstHitsEndSearch ==
    cpc = "done" =>
        /\ \A i, j \in 1..Len(clog) :
            (i < j /\ IsSearch(clog[i]) /\ IsSearch(clog[j])) => Rank(clog[i].dt) < Rank(clog[j].dt)
        /\ clog # <<>> => (IsSearch(clog[1]) /\ clog[1].dt = "Foundation")
        /\ \A i \in 1..Len(clog) :
            (IsSearch(clog[i]) /\ clog[i].foods # <<>>) =>
                /\ Len(clog) = i + 1
                /\ clog[i + 1].op = "fetch"
                /\ clog[i + 1].fdcId = clog[i].foods[1]
        /\ \A i \in 1..Len(clog) :
            clog[i].op = "fetch" => (i > 1 /\ IsSearch(clog[i - 1]) /\ clog[i - 1].foods # <<>>)

\* C10 witness: Foundation had no hits, SR Legacy returned two, the first of
\* them was fetched and no later data type was asked
C10_Witness ==
    /\ cpc = "done"
    /\ Len(clog) = 3
    /\ clog[1].dt = "Foundation" /\ clog[1].status = 200 /\ clog[1].foods = <<>>
    /\ clog[2].dt = "SR Legacy" /\ clog[2].foods = <<2, 1>>
    /\ clog[3].op = "fetch" /\ clog[3].fdcId = 2

\* C11: in fill_usda_nutrients.main the cache never holds two entries whose
\* keys are equal once internal whitespace is collapsed and the ends trimmed,
\* and every entry, a failed lookup's all-unknown one included, was searched
\* once: the remote searches number the cache entries.
C11_OneEntryPerNormalizedName ==
    fpc \in {"loop", "done"} =>
        /\ \A k1, k2 \in DOMAIN cache : normalize_item(k1) = normalize_item(k2) => k1 = k2
        /\ searches = Cardinality(DOMAIN cache)

====
